---- MODULE Spec2Model ----
(***************************************************************************)
(* A model of modarchive_dl.py: the filename sanitizer, the metadata       *)
(* scraper, the CSV catalog upsert and the orchestrating main().           *)
(*                                                                         *)
(* Text is a sequence of one-character strings, so that substring tests,   *)
(* splitting, trimming, CSV quoting and path joining are computed and not  *)
(* assumed.  A character outside ASCII is written by its code point name   *)
(* ("U+00E9") and counts as one character.                                 *)
(***************************************************************************)
EXTENDS Integers, Sequences, FiniteSets, TLC

VARIABLES
    s,          \* sanitize_filename: the argument
    sanitized,  \* sanitize_filename: whether it has returned, and what
    soup,       \* the parsed document: a sequence of sibling elements
    data,       \* scrape_metadata: NotRun, Raised or Returned, and the dict
    csvFiles,   \* the catalog files: csv path -> whether it exists, its text
    passed,     \* history: csv path -> the records passed to the upsert
    lastCall,   \* history: the latest update_metadata_csv call
    calls,      \* number of update_metadata_csv calls, or of runs of main
    pc,         \* main: position of the run, or how it ended
    args,       \* main: the parsed command line
    http,       \* main: the status of each response and the GETs issued
    meta,       \* main: the scraped metadata
    title,      \* main: the resolved display title
    genre,      \* main: the resolved genre
    artist,     \* main: the resolved artist
    dest_path,  \* main: the computed destination path
    dirs,       \* the directories that exist
    files,      \* the module files: a set of [path, content]
    snapshot    \* history: dirs, files and csvFiles when the run started

vars == <<s, sanitized, soup, data, csvFiles, passed, lastCall, calls, pc,
          args, http, meta, title, genre, artist, dest_path, dirs, files,
          snapshot>>

sanVars == <<s, sanitized>>
scrapeVars == <<soup, data>>
csvVars == <<csvFiles, passed, lastCall, calls>>
localVars == <<meta, title, genre, artist, dest_path>>
mainVars == <<pc, args, http, meta, title, genre, artist, dest_path, dirs,
              files, snapshot>>

----------------------------------------------------------------------------
(* Bounds *)

MaxLen == 3        \* longest argument of sanitize_filename
MaxElems == 4      \* most sibling elements of a document
MaxLines == 2      \* most lines of an info section
MaxCalls == 3      \* most update_metadata_csv calls
MaxRuns == 2       \* most runs of main

----------------------------------------------------------------------------
(* Characters and strings *)

Upper == {"A","B","C","D","E","F","G","H","I","J","K","L","M","N","O","P",
          "Q","R","S","T","U","V","W","X","Y","Z"}
Lower == {"a","b","c","d","e","f","g","h","i","j","k","l","m","n","o","p",
          "q","r","s","t","u","v","w","x","y","z"}
Digit == {"0","1","2","3","4","5","6","7","8","9"}
AsciiAlnum == Upper \cup Lower \cup Digit

\* e-acute, ARABIC-INDIC DIGIT THREE, SUPERSCRIPT TWO: str.isalnum() is True
NonAsciiAlnum == {"U+00E9", "U+0663", "U+00B2"}

\* str.isspace() is True (NO-BREAK SPACE included)
Whitespace == {" ", "\t", "\n", "\r", "U+00A0"}

isalnum(c) == c \in AsciiAlnum \cup NonAsciiAlnum

isspace(c) == c \in Whitespace

RECURSIVE lstrip(_)
lstrip(t) == IF t # <<>> /\ isspace(Head(t)) THEN lstrip(Tail(t)) ELSE t

RECURSIVE rstrip(_)
rstrip(t) ==
    IF t # <<>> /\ isspace(t[Len(t)]) THEN rstrip(SubSeq(t, 1, Len(t) - 1))
    ELSE t

strip(t) == rstrip(lstrip(t))

\* All sequences over S of length at most n
RECURSIVE SeqsUpTo(_, _)
SeqsUpTo(S, n) ==
    IF n = 0 THEN {<<>>}
    ELSE LET shorter == SeqsUpTo(S, n - 1)
         IN  shorter \cup {Append(t, c) : t \in shorter, c \in S}

----------------------------------------------------------------------------
(* sanitize_filename *)

KeepChar(c) == isalnum(c) \/ c \in {" ", "_", "-"}

RECURSIVE Filter(_)
Filter(t) ==
    IF t = <<>> THEN <<>>
    ELSE IF KeepChar(Head(t)) THEN <<Head(t)>> \o Filter(Tail(t))
    ELSE Filter(Tail(t))

sanitize_filename_nostrip(t) == Filter(t)

sanitize_filename(t) == strip(Filter(t))

SanChars == {"a", "Z", "5", " ", "_", "-", "!", "/", "\t", "U+00E9", "U+00A0"}

----------------------------------------------------------------------------
(* String constants of the program *)

\* 'Unknown'
S_Unknown == <<"U","n","k","n","o","w","n">>

\* 'Info'
S_Info == <<"I","n","f","o">>

\* 'Registered Artist(s):'
S_RegisteredArtists ==
    <<"R","e","g","i","s","t","e","r","e","d"," ","A","r","t","i","s","t","(",
    "s",")",":">>

\* 'Mod Archive ID:'
L_ModArchiveID ==
    <<"M","o","d"," ","A","r","c","h","i","v","e"," ","I","D",":">>

\* 'MD5:'
L_MD5 == <<"M","D","5",":">>

\* 'Format:'
L_Format == <<"F","o","r","m","a","t",":">>

\* 'Channels:'
L_Channels == <<"C","h","a","n","n","e","l","s",":">>

\* 'Genre:'
L_Genre == <<"G","e","n","r","e",":">>

\* 'mod'
S_mod == <<"m","o","d">>

\* 'module_'
S_module_ == <<"m","o","d","u","l","e","_">>

\* ', '
S_CommaSpace == <<","," ">>

----------------------------------------------------------------------------
(* Generic string operations *)

Nothing == <<>>
Some(x) == <<x>>

Min(S) == CHOOSE x \in S : \A y \in S : x <= y
Max(S) == CHOOSE x \in S : \A y \in S : x >= y

\* sub in t
Contains(t, sub) ==
    \E i \in 1..(Len(t) - Len(sub) + 1) : SubSeq(t, i, i + Len(sub) - 1) = sub

\* t.split(sep, 1)[1], for a one-character sep that occurs in t
RECURSIVE AfterFirst(_, _)
AfterFirst(t, sep) ==
    IF Head(t) = sep THEN Tail(t) ELSE AfterFirst(Tail(t), sep)

\* sep.join(parts)
RECURSIVE Join(_, _)
Join(parts, sep) ==
    IF parts = <<>> THEN <<>>
    ELSE IF Len(parts) = 1 THEN parts[1]
    ELSE parts[1] \o sep \o Join(Tail(parts), sep)

\* t.splitlines(): lines end at "\n", "\r" or "\r\n"; no empty last line
RECURSIVE SplitFrom(_, _)
SplitFrom(t, cur) ==
    IF t = <<>> THEN (IF cur = <<>> THEN <<>> ELSE <<cur>>)
    ELSE IF Head(t) = "\r" /\ Len(t) >= 2 /\ t[2] = "\n"
         THEN <<cur>> \o SplitFrom(Tail(Tail(t)), <<>>)
    ELSE IF Head(t) \in {"\n", "\r"} THEN <<cur>> \o SplitFrom(Tail(t), <<>>)
    ELSE SplitFrom(Tail(t), Append(cur, Head(t)))

splitlines(t) == SplitFrom(t, <<>>)

----------------------------------------------------------------------------
(* The parsed document.  A document is the sequence of its sibling         *)
(* elements in document order.  An element has a tag, its direct text      *)
(* nodes (strings), the text inside its nested elements (nested), and for  *)
(* a list or paragraph the text nodes of its children (items).             *)

Elem(tag, strings, nested, items) ==
    [tag |-> tag, strings |-> strings, nested |-> nested, items |-> items]

\* header.text
text(e) == Join(e.strings, <<>>) \o e.nested

\* header.find(text=True, recursive=False): the first direct text node
find_text(e) == IF e.strings = <<>> THEN Nothing ELSE Some(e.strings[1])

\* soup.find(tag): index of the first element with that tag
find(doc, tag) ==
    LET hits == {j \in 1..Len(doc) : doc[j].tag = tag}
    IN  IF hits = {} THEN Nothing ELSE Some(Min(hits))

\* soup.find_all(tags): indices in document order
find_all(doc, tags) ==
    LET RECURSIVE From(_)
        From(j) == IF j > Len(doc) THEN <<>>
                   ELSE IF doc[j].tag \in tags THEN <<j>> \o From(j + 1)
                   ELSE From(j + 1)
    IN  From(1)

\* header.find_next_sibling(tag) and header.find_next(tag)
find_next_sibling(doc, i, tag) ==
    LET later == {j \in (i + 1)..Len(doc) : doc[j].tag = tag}
    IN  IF later = {} THEN Nothing ELSE Some(Min(later))

find_next(doc, i, tag) == find_next_sibling(doc, i, tag)

\* info_section.get_text(separator="\n")
get_text(e, sep) == Join(e.items, sep)

----------------------------------------------------------------------------
(* scrape_metadata *)

AllUnknown ==
    [mod_id |-> S_Unknown, md5 |-> S_Unknown, format |-> S_Unknown,
     channels |-> S_Unknown, genre |-> S_Unknown, artist |-> S_Unknown]

InfoTags == {"h6", "h3", "h2", "h4"}

InfoSection(doc) ==
    LET RECURSIVE Loop(_)
        Loop(hs) ==
            IF hs = <<>> THEN Nothing
            ELSE IF strip(text(doc[Head(hs)])) = S_Info
                 THEN LET ul == find_next_sibling(doc, Head(hs), "ul")
                      IN  IF ul # Nothing THEN ul
                          ELSE find_next(doc, Head(hs), "p")
            ELSE Loop(Tail(hs))
    IN  Loop(find_all(doc, InfoTags))

Value(line) == strip(AfterFirst(line, ":"))

ScanLineGenreFirst(d, line) ==
    IF Contains(line, L_ModArchiveID) THEN [d EXCEPT !.mod_id = Value(line)]
    ELSE IF Contains(line, L_MD5) THEN [d EXCEPT !.md5 = Value(line)]
    ELSE IF Contains(line, L_Genre) THEN [d EXCEPT !.genre = Value(line)]
    ELSE IF Contains(line, L_Format) THEN [d EXCEPT !.format = Value(line)]
    ELSE IF Contains(line, L_Channels) THEN [d EXCEPT !.channels = Value(line)]
    ELSE d

ScanLine(d, line) ==
    IF Contains(line, L_ModArchiveID) THEN [d EXCEPT !.mod_id = Value(line)]
    ELSE IF Contains(line, L_MD5) THEN [d EXCEPT !.md5 = Value(line)]
    ELSE IF Contains(line, L_Format) THEN [d EXCEPT !.format = Value(line)]
    ELSE IF Contains(line, L_Channels) THEN [d EXCEPT !.channels = Value(line)]
    ELSE IF Contains(line, L_Genre) THEN [d EXCEPT !.genre = Value(line)]
    ELSE d

RECURSIVE ScanLines(_, _)
ScanLines(d, lines) ==
    IF lines = <<>> THEN d
    ELSE ScanLines(ScanLine(d, Head(lines)), Tail(lines))

\* artists_ul.findAll('li') with artist_li.text.strip(), joined
Artists(ul) ==
    Join([k \in 1..Len(ul.items) |-> strip(ul.items[k])], S_CommaSpace)

\* The loop over soup.find_all(['h2']); header.find(...) is None for a
\* heading without a direct text node, and None.strip() raises
RECURSIVE ArtistLoop(_, _, _)
ArtistLoop(doc, hs, d) ==
    IF hs = <<>> THEN [raised |-> FALSE, d |-> d]
    ELSE LET h == Head(hs)
             t == find_text(doc[h])
         IN  IF t = Nothing THEN [raised |-> TRUE, d |-> d]
             ELSE IF strip(t[1]) = S_RegisteredArtists
                  THEN LET artists_ul == find_next_sibling(doc, h, "ul")
                       IN  IF artists_ul # Nothing
                           THEN ArtistLoop(doc, Tail(hs),
                                    [d EXCEPT !.artist =
                                        Artists(doc[artists_ul[1]])])
                           ELSE ArtistLoop(doc, Tail(hs), d)
             ELSE ArtistLoop(doc, Tail(hs), d)

\* Lines 24-38: the dict after the lines of the info section, if any
InfoData(doc, info_section) ==
    IF info_section # Nothing
    THEN ScanLines(AllUnknown,
             splitlines(get_text(doc[info_section[1]], <<"\n">>)))
    ELSE AllUnknown

scrape_metadata(doc) ==
    ArtistLoop(doc, find_all(doc, {"h2"}), InfoData(doc, InfoSection(doc)))

----------------------------------------------------------------------------
(* Documents *)

\* ' Info\n'
T_InfoPadded == <<" ","I","n","f","o","\n">>

\* ' Registered Artist(s): '
T_ArtistsPadded ==
    <<" ","R","e","g","i","s","t","e","r","e","d"," ","A","r","t","i","s","t",
    "(","s",")",":"," ">>

\* 'My Song!'
T_Title == <<"M","y"," ","S","o","n","g","!">>

\* 'Top'
T_Nested == <<"T","o","p">>

\* ' Al '
T_Al == <<" ","A","l"," ">>

\* 'Bo'
T_Bo == <<"B","o">>

\* 'DJ/Foo'
T_DJFoo == <<"D","J","/","F","o","o">>

\* 'Mod Archive ID: 5'
Line_ID ==
    <<"M","o","d"," ","A","r","c","h","i","v","e"," ","I","D",":"," ","5">>

\* 'MD5: ab'
Line_MD5 == <<"M","D","5",":"," ","a","b">>

\* 'Format: IT'
Line_Format == <<"F","o","r","m","a","t",":"," ","I","T">>

\* 'Channels: 8'
Line_Channels == <<"C","h","a","n","n","e","l","s",":"," ","8">>

\* 'Genre: Format: x'
Line_GenreFormat ==
    <<"G","e","n","r","e",":"," ","F","o","r","m","a","t",":"," ","x">>

\* 'junk'
Line_Junk == <<"j","u","n","k">>

\* 'x: MD5: q'
Line_ColonMD5 == <<"x",":"," ","M","D","5",":"," ","q">>

\* 'Format:'
Line_FormatEmpty == <<"F","o","r","m","a","t",":">>

\* 'Genre: !\nMD5: cd'
Line_TwoLines ==
    <<"G","e","n","r","e",":"," ","!","\n","M","D","5",":"," ","c","d">>

\* 'Genre: Chip Tune'
Line_Genre ==
    <<"G","e","n","r","e",":"," ","C","h","i","p"," ","T","u","n","e">>

\* 'Format: A/b'
Line_FormatSlash == <<"F","o","r","m","a","t",":"," ","A","/","b">>

\* 'Genre:'
Line_GenreEmpty == <<"G","e","n","r","e",":">>

H1Title == Elem("h1", <<T_Title>>, <<>>, <<>>)
H2Info == Elem("h2", <<S_Info>>, <<>>, <<>>)
H3Info == Elem("h3", <<T_InfoPadded>>, <<>>, <<>>)
H2Nested == Elem("h2", <<>>, T_Nested, <<>>)
H2Artists == Elem("h2", <<T_ArtistsPadded>>, <<>>, <<>>)
UlArtists == Elem("ul", <<>>, <<>>, <<T_Al, T_Bo>>)
UlInfo == Elem("ul", <<>>, <<>>, <<Line_ID, Line_Format, Line_Genre>>)
PInfo == Elem("p", <<>>, <<>>, <<Line_MD5, Line_GenreEmpty>>)

Elems == {H1Title, H2Info, H2Nested, H2Artists, UlArtists, UlInfo, PInfo}

InfoLines ==
    {Line_ID, Line_MD5, Line_Format, Line_Channels, Line_GenreFormat,
     Line_Junk, Line_ColonMD5, Line_FormatEmpty, Line_TwoLines}

\* Documents that vary in their elements
ShapeDocs == SeqsUpTo(Elems, MaxElems)

\* Documents that vary in the lines of their info section
LineDocs ==
    {<<H2Info, Elem("ul", <<>>, <<>>, ls)>> : ls \in SeqsUpTo(InfoLines, MaxLines)}
    \cup
    {<<H3Info, H1Title, Elem("p", <<>>, <<>>, ls)>> :
        ls \in SeqsUpTo(InfoLines, MaxLines)}

Docs == ShapeDocs \cup LineDocs

----------------------------------------------------------------------------
(* The csv module: writer (QUOTE_MINIMAL, quotechar '"', doublequote,      *)
(* lineterminator "\r\n") and reader (non-strict), for a given delimiter.  *)

Quote == "\""

NeedsQuote(f, delim) ==
    \E k \in 1..Len(f) : f[k] \in {delim, Quote, "\r", "\n"}

RECURSIVE DoubleQuotes(_)
DoubleQuotes(f) ==
    IF f = <<>> THEN <<>>
    ELSE IF Head(f) = Quote THEN <<Quote, Quote>> \o DoubleQuotes(Tail(f))
    ELSE <<Head(f)>> \o DoubleQuotes(Tail(f))

WriteFieldUnquoted(f, delim) == f

WriteField(f, delim) ==
    IF NeedsQuote(f, delim) THEN <<Quote>> \o DoubleQuotes(f) \o <<Quote>>
    ELSE f

\* writer.writerow(fields)
writerow(fields, delim) ==
    Join([k \in 1..Len(fields) |-> WriteField(fields[k], delim)], <<delim>>)
        \o <<"\r", "\n">>

\* The reader's state machine: the state after reading the character c.
\* cr records that the record just ended at "\r", so that a following "\n"
\* belongs to the same line end.
ReaderStep(st, c, delim) ==
    LET EndRecord(fields) ==
            [mode |-> "START_RECORD", field |-> <<>>, row |-> <<>>,
             rows |-> Append(st.rows, fields), cr |-> (c = "\r")]
        EndField(f) ==
            [st EXCEPT !.mode = "START_FIELD", !.field = <<>>,
                       !.row = Append(st.row, f), !.cr = FALSE]
        Add(mode) ==
            [st EXCEPT !.mode = mode, !.field = Append(st.field, c),
                       !.cr = FALSE]
    IN  IF st.cr /\ c = "\n" THEN [st EXCEPT !.cr = FALSE]
        ELSE IF st.mode \in {"START_RECORD", "START_FIELD"}
        THEN IF c \in {"\r", "\n"}
             THEN EndRecord(IF st.mode = "START_RECORD" THEN <<>>
                            ELSE Append(st.row, <<>>))
             ELSE IF c = Quote
             THEN [st EXCEPT !.mode = "IN_QUOTED_FIELD", !.cr = FALSE]
             ELSE IF c = delim THEN EndField(<<>>)
             ELSE Add("IN_FIELD")
        ELSE IF st.mode = "IN_FIELD"
        THEN IF c \in {"\r", "\n"} THEN EndRecord(Append(st.row, st.field))
             ELSE IF c = delim THEN EndField(st.field)
             ELSE Add("IN_FIELD")
        ELSE IF st.mode = "IN_QUOTED_FIELD"
        THEN IF c = Quote THEN [st EXCEPT !.mode = "QUOTE_IN_QUOTED_FIELD"]
             ELSE Add("IN_QUOTED_FIELD")
        ELSE \* QUOTE_IN_QUOTED_FIELD
             IF c = Quote THEN Add("IN_QUOTED_FIELD")
             ELSE IF c = delim THEN EndField(st.field)
             ELSE IF c \in {"\r", "\n"}
             THEN EndRecord(Append(st.row, st.field))
             ELSE Add("IN_FIELD")

\* The state after reading t[lo..hi] from state st
RECURSIVE ReadRange(_, _, _, _, _)
ReadRange(t, lo, hi, st, delim) ==
    IF lo > hi THEN st
    ELSE IF lo = hi THEN ReaderStep(st, t[lo], delim)
    ELSE LET mid == (lo + hi) \div 2
             left == ReadRange(t, lo, mid, st, delim)
         IN  \* the test has TLC evaluate the left half before the right
             IF left.mode = "" THEN left
             ELSE ReadRange(t, mid + 1, hi, left, delim)

\* list(csv.reader(f, delimiter=delim)) for a file opened with newline=""
reader(t, delim) ==
    LET st == ReadRange(t, 1, Len(t),
                  [mode |-> "START_RECORD", field |-> <<>>, row |-> <<>>,
                   rows |-> <<>>, cr |-> FALSE], delim)
    IN  IF st.mode = "START_RECORD" THEN st.rows
        ELSE Append(st.rows, Append(st.row, st.field))

\* A dict with string keys: the keys in order and the value of each.  A
\* value is Some(string), or Nothing for None.
Dict(keys, vals) == [keys |-> keys, vals |-> vals]

HasKey(d, key) == \E k \in 1..Len(d.keys) : d.keys[k] = key

\* d[key], for a key of d
Get(d, key) == d.vals[Min({k \in 1..Len(d.keys) : d.keys[k] = key})]

\* One row of a DictReader with the given fieldnames: a short row is
\* filled with None and the surplus of a long row is kept under the key
\* None (here "None")
ToDict(names, r, delim) ==
    IF Len(r) > Len(names)
    THEN Dict(Append(names, <<"None">>),
              [k \in 1..(Len(names) + 1) |->
                  IF k <= Len(names) THEN Some(r[k])
                  ELSE Some(Join(SubSeq(r, k, Len(r)), <<delim>>))])
    ELSE Dict(names, [k \in 1..Len(names) |->
                         IF k <= Len(r) THEN Some(r[k]) ELSE Nothing])

\* The rows after the first as dicts; empty rows are skipped
RECURSIVE ToDicts(_, _, _)
ToDicts(names, rows, delim) ==
    IF rows = <<>> THEN <<>>
    ELSE IF Head(rows) = <<>> THEN ToDicts(names, Tail(rows), delim)
    ELSE <<ToDict(names, Head(rows), delim)>>
             \o ToDicts(names, Tail(rows), delim)

HeaderAndRows(rows, delim) ==
    IF rows = <<>> THEN <<>> ELSE ToDicts(Head(rows), Tail(rows), delim)

\* list(csv.DictReader(f, delimiter=delim)): the first row gives the
\* fieldnames
DictRows(t, delim) == HeaderAndRows(reader(t, delim), delim)

----------------------------------------------------------------------------
(* The catalog *)

CSV_FILENAME == "modules_catalog.csv"

\* 'ModArchiveID'
F_ModArchiveID == <<"M","o","d","A","r","c","h","i","v","e","I","D">>

\* 'Name'
F_Name == <<"N","a","m","e">>

\* 'MD5'
F_MD5 == <<"M","D","5">>

\* 'Format'
F_Format == <<"F","o","r","m","a","t">>

\* 'Channels'
F_Channels == <<"C","h","a","n","n","e","l","s">>

\* 'Genre'
F_Genre == <<"G","e","n","r","e">>

\* 'Artist'
F_Artist == <<"A","r","t","i","s","t">>

\* 'RelativePath'
F_RelativePath == <<"R","e","l","a","t","i","v","e","P","a","t","h">>

fieldnames ==
    <<F_ModArchiveID, F_Name, F_MD5, F_Format, F_Channels, F_Genre, F_Artist,
      F_RelativePath>>

NoFile == [exists |-> FALSE, text |-> <<>>]
File(t) == [exists |-> TRUE, text |-> t]

ensure_csv_exists(fs, csv_path) ==
    IF ~fs[csv_path].exists
    THEN [fs EXCEPT ![csv_path] = File(writerow(fieldnames, ","))]
    ELSE fs

\* The filter of the read loop
KeepRowAlways(row, new_row) == TRUE

KeepRow(row, new_row) ==
    Get(row, F_ModArchiveID) # Get(new_row, F_ModArchiveID)

\* DictWriter._dict_to_list: a key outside fieldnames raises ValueError
Extras(row) == \E k \in 1..Len(row.keys) :
                   \A j \in 1..Len(fieldnames) : row.keys[k] # fieldnames[j]

dict_to_list(row) ==
    [k \in 1..Len(fieldnames) |->
        IF HasKey(row, fieldnames[k]) /\ Get(row, fieldnames[k]) # Nothing
        THEN Get(row, fieldnames[k])[1] ELSE <<>>]

RECURSIVE writerows(_)
writerows(rows) ==
    IF rows = <<>> \/ Extras(Head(rows)) THEN <<>>
    ELSE writerow(dict_to_list(Head(rows)), ";") \o writerows(Tail(rows))

\* Lines 72-77: the rows read from csv_path
ExistingRows(fs, csv_path) ==
    IF fs[csv_path].exists THEN DictRows(fs[csv_path].text, ";") ELSE <<>>

\* row["ModArchiveID"] raises KeyError for a row without that key
KeyError(old) == \E k \in 1..Len(old) : ~HasKey(old[k], F_ModArchiveID)

RECURSIVE Kept(_, _)
Kept(old, new_row) ==
    IF old = <<>> THEN <<>>
    ELSE IF KeepRow(Head(old), new_row)
    THEN <<Head(old)>> \o Kept(Tail(old), new_row)
    ELSE Kept(Tail(old), new_row)

\* Lines 83-86: the file rewritten; writerows raises ValueError at a row
\* with a key outside fieldnames, after the rows before it
Rewrite(fs, csv_path, rows) ==
    [fs |-> [fs EXCEPT ![csv_path] =
                File(writerow(fieldnames, ";") \o writerows(rows))],
     raised |-> \E k \in 1..Len(rows) : Extras(rows[k])]

\* Lines 72-86, given the rows read
ModifyWrite(fs, csv_path, old, new_row) ==
    IF KeyError(old) THEN [fs |-> fs, raised |-> TRUE]
    ELSE Rewrite(fs, csv_path, Append(Kept(old, new_row), new_row))

ReadModifyWrite(fs, csv_path, new_row) ==
    ModifyWrite(fs, csv_path, ExistingRows(fs, csv_path), new_row)

\* update_metadata_csv(csv_path, new_row): the files afterwards, and whether
\* the call raised
update_metadata_csv(fs, csv_path, new_row) ==
    ReadModifyWrite(ensure_csv_exists(fs, CSV_FILENAME), csv_path, new_row)

----------------------------------------------------------------------------
(* The orchestrator: helpers of main *)

UpperSeq == <<"A","B","C","D","E","F","G","H","I","J","K","L","M","N","O",
              "P","Q","R","S","T","U","V","W","X","Y","Z">>
LowerSeq == <<"a","b","c","d","e","f","g","h","i","j","k","l","m","n","o",
              "p","q","r","s","t","u","v","w","x","y","z">>

\* str.lower()
lower(t) ==
    [k \in 1..Len(t) |->
        IF t[k] \in Upper
        THEN LowerSeq[CHOOSE j \in 1..26 : UpperSeq[j] = t[k]]
        ELSE t[k]]

\* os.path.join(a, b)
path_join_concat(a, b) == a \o <<"/">> \o b

path_join(a, b) ==
    IF b # <<>> /\ Head(b) = "/" THEN b
    ELSE IF a = <<>> \/ a[Len(a)] = "/" THEN a \o b
    ELSE a \o <<"/">> \o b

\* os.path.dirname(p)
dirname(p) ==
    LET slashes == {k \in 1..Len(p) : p[k] = "/"}
    IN  IF slashes = {} THEN <<>> ELSE SubSeq(p, 1, Max(slashes) - 1)

\* The directory a path names: "./" and "." are the same directory
normdir(p) == IF p # <<>> /\ p[Len(p)] = "/" THEN SubSeq(p, 1, Len(p) - 1)
              ELSE p

\* resp.raise_for_status() raises HTTPError
raise_for_status_never(status) == FALSE

raise_for_status(status) == 400 <= status /\ status < 600

\* Lines 94-95: the display title; raised for None.strip() on a heading
\* without a direct text node, and for the undefined name mod_id
Title(doc, a) ==
    LET h1 == find(doc, "h1")
        title_header == IF h1 # Nothing THEN h1 ELSE find(doc, "h2")
    IN  IF a.name # Nothing THEN [raised |-> FALSE, title |-> a.name[1]]
        ELSE IF title_header # Nothing
        THEN LET t == find_text(doc[title_header[1]])
             IN  IF t = Nothing THEN [raised |-> TRUE, title |-> <<>>]
                 ELSE [raised |-> FALSE, title |-> strip(t[1])]
        ELSE [raised |-> TRUE, title |-> <<>>]

\* Line 97
Artist(m, a) == IF a.artist = Nothing THEN m.artist ELSE a.artist[1]

\* Line 98: (meta["genre"] or "Unknown") if args.genre is None else args.genre
Genre(m, a) ==
    IF a.genre = Nothing
    THEN (IF m.genre # <<>> THEN m.genre ELSE S_Unknown)
    ELSE a.genre[1]

\* Lines 99-100
ExtNoFallback(m) == lower(m.format)

Ext(m) == IF lower(m.format) # <<>> THEN lower(m.format) ELSE S_mod

\* Lines 101-107
DestDir(g) == path_join(<<".">>, sanitize_filename(g))

DestPath(t, ar, g, ext) ==
    path_join(DestDir(g),
              sanitize_filename(t) \o <<"-">> \o sanitize_filename(ar)
                  \o <<".">> \o ext)

\* Lines 112-121
Record(m, t, ar, g, path) ==
    Dict(fieldnames,
         <<Some(m.mod_id), Some(t), Some(m.md5), Some(m.format),
           Some(m.channels), Some(g), Some(ar), Some(path)>>)

----------------------------------------------------------------------------
(* Inputs *)

CsvPaths == {CSV_FILENAME, "other.csv"}

IDs == {<<"5">>, <<"5", ";">>, <<>>}

PayloadPlain ==
    <<T_Title, <<"a","b">>, <<"I","T">>, <<"8">>, <<"C","h","i","p">>,
      T_DJFoo, <<".","/","x">>>>

PayloadTricky ==
    <<<<"a","\"","b">>, <<"x","\n","y">>, <<>>, <<" ","8"," ">>,
      <<"a",";","b">>, <<"\r">>, <<",">>>>

Payloads == {PayloadPlain, PayloadTricky}

Row(id, payload) ==
    Dict(fieldnames, [k \in 1..8 |-> IF k = 1 THEN Some(id)
                                     ELSE Some(payload[k - 1])])

Rows == {Row(id, payload) : id \in IDs, payload \in Payloads}

Statuses == {200, 404, 503}

Bodies == {"bytes1", "bytes2"}

ModId == <<"4", "2">>

NoArgs == [mod_id |-> ModId, name |-> Nothing, artist |-> Nothing,
           genre |-> Nothing]

ArgsSet ==
    {NoArgs,
     [NoArgs EXCEPT !.name = Some(T_Title)],
     [NoArgs EXCEPT !.artist = Some(T_DJFoo)],
     [NoArgs EXCEPT !.genre = Some(<<"/">>)],
     [NoArgs EXCEPT !.name = Some(<<"x">>), !.artist = Some(<<>>),
                    !.genre = Some(<<" ", "g">>)]}

Pages ==
    {<<H1Title, H2Info, UlInfo, H2Artists, UlArtists>>,
     <<>>,
     <<H2Nested>>,
     <<H1Title, H3Info, PInfo>>,
     <<H2Info, Elem("ul", <<>>, <<>>, <<Line_FormatEmpty, Line_TwoLines>>)>>,
     <<H2Artists, Elem("p", <<>>, <<>>, <<Line_Junk>>)>>,
     <<H1Title, H2Info, Elem("ul", <<>>, <<>>, <<Line_FormatSlash>>)>>}

----------------------------------------------------------------------------
(* Initial values *)

IdleSan == s = <<>> /\ sanitized = [done |-> FALSE, out |-> <<>>]

IdleScrape == soup = <<>> /\ data = [state |-> "NotRun", d |-> AllUnknown]

IdleCsv ==
    /\ csvFiles = [p \in CsvPaths |-> NoFile]
    /\ passed = [p \in CsvPaths |-> <<>>]
    /\ lastCall = [made |-> FALSE, path |-> CSV_FILENAME,
                   row |-> Dict(<<>>, <<>>), raised |-> FALSE]
    /\ calls = 0

NoHttp == [page |-> 0, download |-> 0, gets |-> 0, body |-> ""]

IdleMain ==
    /\ pc = "idle"
    /\ args = NoArgs
    /\ http = NoHttp
    /\ meta = AllUnknown
    /\ title = <<>> /\ genre = <<>> /\ artist = <<>> /\ dest_path = <<>>
    /\ dirs = {<<".">>}
    /\ files = {}
    /\ snapshot = [dirs |-> {<<".">>}, files |-> {},
                   csvFiles |-> [p \in CsvPaths |-> NoFile]]

----------------------------------------------------------------------------
(* sanitize_filename applied to an argument *)

InitSanitize ==
    /\ s \in SeqsUpTo(SanChars, MaxLen)
    /\ sanitized = [done |-> FALSE, out |-> <<>>]
    /\ IdleScrape /\ IdleCsv /\ IdleMain

Sanitize ==
    /\ ~sanitized.done
    /\ sanitized' = [done |-> TRUE, out |-> sanitize_filename(s)]
    /\ UNCHANGED <<s, scrapeVars, csvVars, mainVars>>

NextSanitize == Sanitize

SpecSanitize == InitSanitize /\ [][NextSanitize]_vars

----------------------------------------------------------------------------
(* scrape_metadata applied to a document *)

InitScrape ==
    /\ soup \in Docs
    /\ data = [state |-> "NotRun", d |-> AllUnknown]
    /\ IdleSan /\ IdleCsv /\ IdleMain

Scrape ==
    /\ data.state = "NotRun"
    /\ LET r == scrape_metadata(soup)
       IN  data' = [state |-> IF r.raised THEN "Raised" ELSE "Returned",
                    d |-> r.d]
    /\ UNCHANGED <<soup, sanVars, csvVars, mainVars>>

NextScrape == Scrape

SpecScrape == InitScrape /\ [][NextScrape]_vars

----------------------------------------------------------------------------
(* update_metadata_csv called repeatedly *)

InitCsv == IdleSan /\ IdleScrape /\ IdleCsv /\ IdleMain

\* The call made and its result recorded
Called(csv_path, new_row, r) ==
    /\ csvFiles' = r.fs
    /\ lastCall' = [made |-> TRUE, path |-> csv_path, row |-> new_row,
                    raised |-> r.raised]
    /\ passed' = [passed EXCEPT ![csv_path] = Append(@, new_row)]

Upsert(csv_path, new_row) ==
    /\ calls < MaxCalls
    /\ Called(csv_path, new_row,
              update_metadata_csv(csvFiles, csv_path, new_row))
    /\ calls' = calls + 1
    /\ UNCHANGED <<sanVars, scrapeVars, mainVars>>

NextCsv == \E csv_path \in CsvPaths, new_row \in Rows : Upsert(csv_path, new_row)

SpecCsv == InitCsv /\ [][NextCsv]_vars

----------------------------------------------------------------------------
(* main, run repeatedly in the same working directory.  A run is cut at    *)
(* its two HTTP requests and before the catalog update.                    *)

InitMain == IdleSan /\ IdleScrape /\ IdleCsv /\ IdleMain

Ended == {"idle", "done", "failed_fetch", "failed_download", "crashed_scrape",
          "crashed_title", "crashed_open", "crashed_csv"}

\* The process starts: main(args) is entered
Start(a) ==
    /\ pc \in Ended
    /\ calls < MaxRuns
    /\ calls' = calls + 1
    /\ args' = a
    /\ pc' = "fetch"
    /\ http' = NoHttp
    /\ meta' = AllUnknown
    /\ title' = <<>> /\ genre' = <<>> /\ artist' = <<>> /\ dest_path' = <<>>
    /\ soup' = <<>>
    /\ snapshot' = [dirs |-> dirs, files |-> files, csvFiles |-> csvFiles]
    /\ UNCHANGED <<sanVars, data, csvFiles, passed, lastCall, dirs, files>>

\* fetch_html: the response to the page request
FetchHtml(status, doc) ==
    /\ pc = "fetch"
    /\ http' = [http EXCEPT !.page = status, !.gets = @ + 1]
    /\ IF raise_for_status(status)
       THEN pc' = "failed_fetch" /\ UNCHANGED soup
       ELSE pc' = "prepare" /\ soup' = doc
    /\ UNCHANGED <<sanVars, data, csvVars, args, localVars, dirs, files,
                   snapshot>>

\* Lines 97-107, for the scraped dict m and the title t
Resolved(m, t, ar, g) ==
    /\ pc' = "download"
    /\ meta' = m
    /\ title' = t
    /\ artist' = ar
    /\ genre' = g
    /\ dest_path' = DestPath(t, ar, g, Ext(m))
    /\ dirs' = dirs \cup {normdir(DestDir(g))}

\* Lines 91-107, for the result r of the scrape and t of the title
Prepared(r, t) ==
    IF r.raised
    THEN /\ pc' = "crashed_scrape"
         /\ UNCHANGED <<localVars, dirs>>
    ELSE IF t.raised
    THEN /\ pc' = "crashed_title"
         /\ meta' = r.d
         /\ UNCHANGED <<title, genre, artist, dest_path, dirs>>
    ELSE Resolved(r.d, t.title, Artist(r.d, args), Genre(r.d, args))

\* Lines 91-109: scrape, resolve, compute the path, make the directory
Prepare ==
    /\ pc = "prepare"
    /\ Prepared(scrape_metadata(soup), Title(soup, args))
    /\ UNCHANGED <<sanVars, scrapeVars, csvVars, args, http, files, snapshot>>

\* download_module: the response to the download request, and the write
DownloadModule(status, body) ==
    /\ pc = "download"
    /\ http' = [http EXCEPT !.download = status, !.gets = @ + 1,
                            !.body = body]
    /\ IF raise_for_status(status)
       THEN pc' = "failed_download" /\ UNCHANGED files
       ELSE IF dirname(dest_path) \notin dirs
       THEN pc' = "crashed_open" /\ UNCHANGED files
       ELSE /\ pc' = "upsert"
            /\ files' = {f \in files : f.path # dest_path}
                            \cup {[path |-> dest_path, content |-> body]}
    /\ UNCHANGED <<sanVars, scrapeVars, csvVars, args, localVars, dirs,
                   snapshot>>

\* Lines 112-121: the catalog update
UpdateCatalog ==
    /\ pc = "upsert"
    /\ Called(CSV_FILENAME, Record(meta, title, artist, genre, dest_path),
              update_metadata_csv(csvFiles, CSV_FILENAME,
                  Record(meta, title, artist, genre, dest_path)))
    /\ pc' = IF lastCall'.raised THEN "crashed_csv" ELSE "done"
    /\ UNCHANGED <<sanVars, scrapeVars, calls, args, http, localVars, dirs,
                   files, snapshot>>

NextMain ==
    \/ \E a \in ArgsSet : Start(a)
    \/ \E status \in Statuses, doc \in Pages : FetchHtml(status, doc)
    \/ Prepare
    \/ \E status \in Statuses, body \in Bodies : DownloadModule(status, body)
    \/ UpdateCatalog

SpecMain == InitMain /\ [][NextMain]_vars

----------------------------------------------------------------------------
(* Properties of sanitize_filename *)

InClaimedClass(c) == c \in AsciiAlnum \cup {" ", "_", "-"}

Trimmed(t) == t = <<>> \/ (~isspace(t[1]) /\ ~isspace(t[Len(t)]))

\* C5 as stated: for every input the result holds only characters of
\* [A-Za-z0-9 _-] and has no leading or trailing whitespace.
C5_AsciiOnly ==
    sanitized.done =>
        /\ \A k \in 1..Len(sanitized.out) : InClaimedClass(sanitized.out[k])
        /\ Trimmed(sanitized.out)

\* C5 amended: for every input the result holds only characters that are
\* alphanumeric in the sense of str.isalnum (ASCII or not), spaces,
\* underscores and hyphens, and has no leading or trailing whitespace.
C5_AlnumOnly ==
    sanitized.done =>
        /\ \A k \in 1..Len(sanitized.out) :
              \/ sanitized.out[k] \in AsciiAlnum \cup NonAsciiAlnum
              \/ sanitized.out[k] \in {" ", "_", "-"}
        /\ Trimmed(sanitized.out)

C5_Witness ==
    /\ sanitized.done
    /\ s = <<" ", "U+00E9", "!">>
    /\ sanitized.out = <<"U+00E9">>

----------------------------------------------------------------------------
(* Properties of scrape_metadata *)

Headings == {"h1", "h2", "h3", "h4", "h5", "h6"}

NoInfoHeading(doc) ==
    \A i \in 1..Len(doc) :
        ~(doc[i].tag \in Headings /\ strip(text(doc[i])) = S_Info)

IsArtistHeading(e) ==
    /\ e.tag = "h2"
    /\ e.strings # <<>>
    /\ strip(e.strings[1]) = S_RegisteredArtists

NoArtistHeading(doc) == \A i \in 1..Len(doc) : ~IsArtistHeading(doc[i])

\* C3: a document with no "Info" heading and no "Registered Artist(s):"
\* level-2 heading is scraped without error to six "Unknown" fields.
C3_AllUnknown ==
    (data.state # "NotRun" /\ NoInfoHeading(soup) /\ NoArtistHeading(soup))
        => (data.state = "Returned" /\ data.d = AllUnknown)

Labels == <<L_ModArchiveID, L_MD5, L_Format, L_Channels, L_Genre>>

FieldOf == <<"mod_id", "md5", "format", "channels", "genre">>

\* The position in Labels of the first label that occurs in the line, or 0
LabelOf(line) ==
    LET found == {j \in 1..Len(Labels) : Contains(line, Labels[j])}
    IN  IF found = {} THEN 0 ELSE Min(found)

RemainderAfterColon(line) ==
    LET colon == Min({k \in 1..Len(line) : line[k] = ":"})
    IN  strip(SubSeq(line, colon + 1, Len(line)))

SectionLines(doc) ==
    splitlines(get_text(doc[InfoSection(doc)[1]], <<"\n">>))

\* The value the lines give the field of Labels[j]
LastValue(lines, j) ==
    LET hits == {i \in 1..Len(lines) : LabelOf(lines[i]) = j}
    IN  IF hits = {} THEN S_Unknown
        ELSE RemainderAfterColon(lines[Max(hits)])

\* C8: with an info section, each line goes to the field of the first
\* label (in the listed order) it contains, the field gets the trimmed
\* remainder after the line's first colon, lines without a label change
\* nothing, and the last matching line of a field gives its value.
C8_LastLabelledLineWins ==
    (data.state = "Returned" /\ InfoSection(soup) # Nothing) =>
        \A j \in 1..Len(Labels) :
            data.d[FieldOf[j]] = LastValue(SectionLines(soup), j)

C8_Witness ==
    /\ data.state = "Returned"
    /\ InfoSection(soup) # Nothing
    /\ SectionLines(soup) = <<Line_Format, Line_GenreFormat>>
    /\ data.d.format = <<"F","o","r","m","a","t",":"," ","x">>
    /\ data.d.genre = S_Unknown

\* The artist the first "Registered Artist(s):" heading gives
FirstHeadingArtist(doc) ==
    LET hs == {i \in 1..Len(doc) : IsArtistHeading(doc[i])}
        uls == {j \in (Min(hs) + 1)..Len(doc) : doc[j].tag = "ul"}
    IN  IF hs = {} \/ uls = {} THEN S_Unknown
        ELSE Join([k \in 1..Len(doc[Min(uls)].items) |->
                      strip(doc[Min(uls)].items[k])], S_CommaSpace)

\* C9: the artist is given by the first level-2 heading whose direct text
\* trims to "Registered Artist(s):" (its next sibling list joined with
\* ", ", or "Unknown" without one); later such headings change nothing.
C9_FirstArtistHeading ==
    data.state = "Returned" => data.d.artist = FirstHeadingArtist(soup)

----------------------------------------------------------------------------
(* Properties of update_metadata_csv *)

IdOf(row) == Get(row, F_ModArchiveID)

\* The eight values of a record, as strings
ValuesOf(row) == [k \in 1..Len(fieldnames) |-> Get(row, fieldnames[k])[1]]

\* C1: starting without the file, after any calls on one csv_path the file
\* holds the header and exactly one data row per distinct ModArchiveID
\* passed, with the values of the latest call for that ModArchiveID.
C1_OneRowPerId ==
    \A p \in CsvPaths :
        passed[p] # <<>> =>
            /\ csvFiles[p].exists
            /\ LET rows == reader(csvFiles[p].text, ";")
                   n == Len(passed[p])
                   ids == {IdOf(passed[p][k]) : k \in 1..n}
               IN  /\ rows # <<>>
                   /\ rows[1] = fieldnames
                   /\ Len(rows) - 1 = Cardinality(ids)
                   /\ \A id \in ids :
                         LET last == Max({k \in 1..n :
                                            IdOf(passed[p][k]) = id})
                             mine == {j \in 2..Len(rows) :
                                         rows[j][1] = id[1]}
                         IN  /\ Cardinality(mine) = 1
                             /\ \A j \in mine :
                                   rows[j] = ValuesOf(passed[p][last])

C1_Witness ==
    \E p \in CsvPaths :
        /\ Len(passed[p]) = 3
        /\ passed[p][1] = Row(<<"5">>, PayloadPlain)
        /\ passed[p][2] = Row(<<"5", ";">>, PayloadTricky)
        /\ passed[p][3] = Row(<<"5">>, PayloadTricky)
        /\ Len(reader(csvFiles[p].text, ";")) = 3

RowSet(f) ==
    LET rows == reader(f.text, ";") IN {rows[j] : j \in 1..Len(rows)}

\* C2: a call that repeats the record and path of the call before it
\* leaves the same set of rows, with exactly one row for that ModArchiveID.
C2_Idempotent ==
    [][(/\ lastCall.made
        /\ calls' = calls + 1
        /\ lastCall'.path = lastCall.path
        /\ lastCall'.row = lastCall.row)
       => (/\ RowSet(csvFiles'[lastCall.path]) = RowSet(csvFiles[lastCall.path])
           /\ LET rows == reader(csvFiles'[lastCall.path].text, ";")
              IN  Cardinality({j \in 2..Len(rows) :
                                  rows[j][1] = IdOf(lastCall.row)[1]}) = 1)]_vars

C2_Witness ==
    /\ lastCall.made
    /\ LET log == passed[lastCall.path]
       IN  /\ Len(log) >= 3
           /\ log[Len(log)] = log[Len(log) - 1]
           /\ log[Len(log)] = Row(<<"5", ";">>, PayloadTricky)
           /\ IdOf(log[1]) # IdOf(log[Len(log)])

\* C10: a call creates or changes no file but the one at csv_path, and a
\* csv_path that did not exist exists afterwards, its first row the
\* semicolon-delimited header.
C10_OnlyCsvPath ==
    [][calls' = calls + 1 =>
          LET p == lastCall'.path
          IN  /\ \A q \in CsvPaths \ {p} : csvFiles'[q] = csvFiles[q]
              /\ files' = files /\ dirs' = dirs
              /\ ~csvFiles[p].exists =>
                    /\ csvFiles'[p].exists
                    /\ SubSeq(csvFiles'[p].text, 1,
                              Len(writerow(fieldnames, ";")))
                           = writerow(fieldnames, ";")]_vars

----------------------------------------------------------------------------
(* Properties of main *)

DirectText(e) == IF e.strings = <<>> THEN <<>> ELSE strip(e.strings[1])

FirstWithTag(doc, tag) == doc[Min({i \in 1..Len(doc) : doc[i].tag = tag})]

HasTag(doc, tag) == \E i \in 1..Len(doc) : doc[i].tag = tag

ExpectedTitle ==
    IF args.name # Nothing THEN args.name[1]
    ELSE IF HasTag(soup, "h1") THEN DirectText(FirstWithTag(soup, "h1"))
    ELSE IF HasTag(soup, "h2") THEN DirectText(FirstWithTag(soup, "h2"))
    ELSE S_module_ \o args.mod_id

\* C4: once the page is scraped, the title is the name override, else the
\* direct text of the first level-1 heading, else that of the first
\* level-2 heading, else "module_<module_id>", and the run continues.
C4_TitleResolved ==
    pc \in {"download", "upsert", "done", "failed_download", "crashed_title",
            "crashed_open", "crashed_csv"}
        => (pc # "crashed_title" /\ title = ExpectedTitle)

Success(status) == status \in 200..299

Written == [path |-> dest_path, content |-> http.body] \in files

Computed == {"download", "upsert", "done", "failed_download", "crashed_open",
             "crashed_csv"}

ExpectedExt == IF meta.format = <<>> THEN S_mod ELSE lower(meta.format)

ExpectedName ==
    sanitize_filename(title) \o <<"-">> \o sanitize_filename(artist)
        \o <<".">> \o ExpectedExt

\* The path is the one written to and the one recorded
PathUsed ==
    /\ pc \in {"upsert", "done", "crashed_csv"} => Written
    /\ pc = "done" =>
          LET rows == reader(csvFiles[CSV_FILENAME].text, ";")
          IN  rows[Len(rows)][Len(fieldnames)] = dest_path

\* C7 as stated: the destination path is always "./" + sanitize(genre) +
\* "/" + sanitize(title) + "-" + sanitize(artist) + "." + ext, and it is
\* the path written to and recorded as RelativePath.
C7_PathConcat ==
    /\ pc \in Computed =>
          dest_path = <<".", "/">> \o sanitize_filename(genre) \o <<"/">>
                          \o ExpectedName
    /\ PathUsed

\* C7 amended: the destination path is "./" + sanitize(genre) + "/" + name
\* when sanitize(genre) is not empty and "./" + name when it is empty, name
\* being sanitize(title) + "-" + sanitize(artist) + "." + ext; it is the
\* path written to and recorded as RelativePath.
C7_PathJoined ==
    /\ pc \in Computed =>
          dest_path = IF sanitize_filename(genre) = <<>>
                      THEN <<".", "/">> \o ExpectedName
                      ELSE <<".", "/">> \o sanitize_filename(genre)
                               \o <<"/">> \o ExpectedName
    /\ PathUsed

\* './Chip Tune/My Song-DJFoo.it'
P_Example ==
    <<".","/","C","h","i","p"," ","T","u","n","e","/","M","y"," ","S","o","n",
    "g","-","D","J","F","o","o",".","i","t">>

C7_Witness ==
    /\ pc = "done"
    /\ title = T_Title /\ artist = T_DJFoo
    /\ dest_path = P_Example


====
